---- MODULE Spec2Model ----
(***************************************************************************)
(* TradeLab (FixLab): the allocation engine of the FIX simulator.          *)
(*                                                                         *)
(* AllocationEngine is a class of static, pure functions.  A behaviour of  *)
(* AllocSpec is one call: Init draws the arguments of a call to calculate  *)
(* or to validate, and the action of that name runs the function and       *)
(* records what it returned (or that it threw).                            *)
(*                                                                         *)
(* Numbers.  Quantities, weights, percentages and prices are whole         *)
(* numbers, on which the double arithmetic of the source is exact.  An     *)
(* optional field (qty?: number) is <<>> when undefined and <<v>> when it  *)
(* holds v.  A string is the sequence of its characters.                   *)
(***************************************************************************)
EXTENDS Integers, Sequences, FiniteSets, TLC

\* ---------------------------------------------------------------- bounds
MaxAccounts == 3
MaxQty == 4
MaxWeight == 1
MaxPx == 2

\* ------------------------------------------------------- values and types
Undefined == <<>>

AllocationType == {"ProRata", "Percent", "FixedQty", "AvgPrice"}

\* `x || y` on a number that may be undefined: undefined and 0 are falsy.
Truthy(x) == x # Undefined /\ x[1] # 0

OrZero(x) == IF Truthy(x) THEN x[1] ELSE 0

Abs(x) == IF x < 0 THEN -x ELSE x

\* Math.floor(a / b) for b # 0.
Floor(a, b) == IF b > 0 THEN a \div b ELSE (-a) \div (-b)

IsWhitespace(c) == c \in {" ", "\t", "\n", "\r"}

RECURSIVE TrimStart(_)
TrimStart(s) ==
  IF s = <<>> THEN <<>>
  ELSE IF IsWhitespace(Head(s)) THEN TrimStart(Tail(s)) ELSE s

RECURSIVE TrimEnd(_)
TrimEnd(s) ==
  IF s = <<>> THEN <<>>
  ELSE IF IsWhitespace(s[Len(s)]) THEN TrimEnd(SubSeq(s, 1, Len(s) - 1)) ELSE s

\* String.prototype.trim
Trim(s) == TrimEnd(TrimStart(s))

\* AllocationAccount of the shared schema.
AllocationAccount(account, qty, percent, netMoney) ==
  [account |-> account, qty |-> qty, percent |-> percent, netMoney |-> netMoney]

\* ------------------------------------------------------------ the inputs
\* The rows a caller sends.  A row of weight w carries the percentage 50 * w
\* (nothing checks the sign before calculate runs); one row leaves qty and
\* percent undefined.
WeightRows ==
  { AllocationAccount(<<"A">>, <<w>>, <<50 * w>>, Undefined) : w \in -1..MaxWeight }
  \cup { AllocationAccount(<<"B">>, Undefined, Undefined, Undefined) }

\* Rows with an empty identifier and with an identifier of blanks.
BlankRows ==
  { AllocationAccount(<<>>, <<1>>, <<50>>, Undefined),
    AllocationAccount(<<" ">>, <<1>>, <<50>>, Undefined) }

RECURSIVE ListsUpTo(_, _)
ListsUpTo(rows, n) ==
  IF n = 0 THEN { <<>> }
  ELSE LET shorter == ListsUpTo(rows, n - 1)
       IN  shorter \cup { Append(l, a) : l \in { s \in shorter : Len(s) = n - 1 },
                                         a \in rows }

\* The account lists calculate is run on, and those validate is run on.
CalculateLists == ListsUpTo(WeightRows, MaxAccounts)

ValidateLists == ListsUpTo(WeightRows \cup BlankRows, MaxAccounts)

OptPx == { Undefined } \cup { <<p>> : p \in 0..MaxPx }

\* The fields of Order that calculate reads.
Orders == [avgPx : OptPx, price : OptPx, cumQty : 0..MaxQty]

\* allocType arrives in a WebSocket message: any string.
AllocTypeInputs == AllocationType \cup {"Bogus"}

CalculateCalls ==
  [op : {"calculate"}, allocType : AllocTypeInputs, order : Orders,
   inputAccounts : CalculateLists]

ValidateCalls ==
  [op : {"validate"}, allocType : AllocTypeInputs, accounts : ValidateLists,
   totalQty : 0..MaxQty]

\* ---------------------------------------------------- AllocationEngine
\* accounts.reduce((sum, acc) => sum + (acc.qty || 0), 0)
RECURSIVE SumQty(_)
SumQty(accs) ==
  IF accs = <<>> THEN 0
  ELSE SumQty(SubSeq(accs, 1, Len(accs) - 1)) + OrZero(accs[Len(accs)].qty)

\* accounts.reduce((sum, acc) => sum + (acc.percent || 0), 0)
RECURSIVE SumPercent(_)
SumPercent(accs) ==
  IF accs = <<>> THEN 0
  ELSE SumPercent(SubSeq(accs, 1, Len(accs) - 1)) + OrZero(accs[Len(accs)].percent)

\* accounts.reduce((sum, acc) => sum + (acc.netMoney || 0), 0)
RECURSIVE SumNetMoney(_)
SumNetMoney(accs) ==
  IF accs = <<>> THEN 0
  ELSE SumNetMoney(SubSeq(accs, 1, Len(accs) - 1)) + OrZero(accs[Len(accs)].netMoney)

\* const avgPx = order.avgPx || order.price || 0
SetupAvgPx(order) ==
  IF Truthy(order.avgPx) THEN order.avgPx[1]
  ELSE IF Truthy(order.price) THEN order.price[1]
  ELSE 0

\* const totalQty = order.cumQty
SetupTotalQty(order) == order.cumQty

\* The totalWeight === 0 branch: { ...acc, qty: 0, netMoney: 0 }
ZeroWeightAccount_KeepInput(acc) == acc

ZeroWeightAccount(acc) == [acc EXCEPT !.qty = <<0>>, !.netMoney = <<0>>]

\* The quantity of account i of n in calculateProRata.
ProRataQty_NoRemainder(i, n, totalQty, weight, totalWeight, allocated) ==
  Floor(totalQty * weight, totalWeight)

ProRataQty_Ceil(i, n, totalQty, weight, totalWeight, allocated) ==
  IF i = n THEN totalQty - allocated
  ELSE -Floor(-(totalQty * weight), totalWeight)

ProRataQty(i, n, totalQty, weight, totalWeight, allocated) ==
  IF i = n THEN totalQty - allocated
  ELSE Floor(totalQty * weight, totalWeight)

\* The loop of calculateProRata from index i on, `allocated` so far.
\* percent is the double (qty / totalQty) * 100, kept as the pair
\* <<qty * 100, totalQty>> of its numerator and denominator.
RECURSIVE ProRataLoop(_, _, _, _, _, _, _)
ProRataLoop(inputAccounts, totalQty, avgPx, totalWeight, i, allocated, accounts) ==
  IF i > Len(inputAccounts) THEN accounts
  ELSE LET acc == inputAccounts[i]
           weight == OrZero(acc.qty)
           qty == ProRataQty(i, Len(inputAccounts), totalQty, weight, totalWeight, allocated)
           netMoney == qty * avgPx
       IN  ProRataLoop(inputAccounts, totalQty, avgPx, totalWeight, i + 1,
                       allocated + qty,
                       Append(accounts,
                              AllocationAccount(acc.account, <<qty>>,
                                                <<qty * 100, totalQty>>, <<netMoney>>)))

calculateProRata(inputAccounts, totalQty, avgPx) ==
  LET totalWeight == SumQty(inputAccounts)
  IN  IF totalWeight = 0
      THEN [i \in 1..Len(inputAccounts) |-> ZeroWeightAccount(inputAccounts[i])]
      ELSE ProRataLoop(inputAccounts, totalQty, avgPx, totalWeight, 1, 0, <<>>)

\* The quantity of account i of n in calculatePercent.
PercentQty_AllFloor(i, n, totalQty, percent, allocated) ==
  Floor(totalQty * percent, 100)

PercentQty(i, n, totalQty, percent, allocated) ==
  IF i = n THEN totalQty - allocated
  ELSE Floor(totalQty * percent, 100)

RECURSIVE PercentLoop(_, _, _, _, _, _)
PercentLoop(inputAccounts, totalQty, avgPx, i, allocated, accounts) ==
  IF i > Len(inputAccounts) THEN accounts
  ELSE LET acc == inputAccounts[i]
           percent == OrZero(acc.percent)
           qty == PercentQty(i, Len(inputAccounts), totalQty, percent, allocated)
           netMoney == qty * avgPx
       IN  PercentLoop(inputAccounts, totalQty, avgPx, i + 1, allocated + qty,
                       Append(accounts,
                              AllocationAccount(acc.account, <<qty>>,
                                                <<percent>>, <<netMoney>>)))

calculatePercent(inputAccounts, totalQty, avgPx) ==
  PercentLoop(inputAccounts, totalQty, avgPx, 1, 0, <<>>)

\* The callback of calculateFixedQty's map: { account, qty, netMoney }.
FixedQtyAccount_NoPrice(acc, avgPx) ==
  AllocationAccount(acc.account, <<OrZero(acc.qty)>>, Undefined, <<OrZero(acc.qty)>>)

FixedQtyAccount(acc, avgPx) ==
  LET qty == OrZero(acc.qty)
      netMoney == qty * avgPx
  IN  AllocationAccount(acc.account, <<qty>>, Undefined, <<netMoney>>)

calculateFixedQty(inputAccounts, avgPx) ==
  [i \in 1..Len(inputAccounts) |-> FixedQtyAccount(inputAccounts[i], avgPx)]

\* The callback of calculateAvgPrice's map.
AvgPriceAccount_PercentBasis(acc, avgPx) ==
  AllocationAccount(acc.account, <<OrZero(acc.percent)>>, Undefined,
                    <<OrZero(acc.percent) * avgPx>>)

AvgPriceAccount(acc, avgPx) ==
  LET qty == OrZero(acc.qty)
      netMoney == qty * avgPx
  IN  AllocationAccount(acc.account, <<qty>>, Undefined, <<netMoney>>)

calculateAvgPrice(inputAccounts, avgPx) ==
  [i \in 1..Len(inputAccounts) |-> AvgPriceAccount(inputAccounts[i], avgPx)]

\* What calculate hands back: a returned AllocationCalculation, or a throw.
Returned(accounts) ==
  [kind |-> "return", accounts |-> accounts,
   totalQty |-> SumQty(accounts), totalNetMoney |-> SumNetMoney(accounts)]

\* default: throw new Error(`Unknown allocation type: ${allocType}`)
UnknownAllocType_Degrade(allocType) == Returned(<<>>)

UnknownAllocType(allocType) ==
  [kind |-> "throw", error |-> <<"Unknown allocation type", allocType>>]

calculate(allocType, order, inputAccounts) ==
  LET avgPx == SetupAvgPx(order)
      totalQty == SetupTotalQty(order)
  IN  CASE allocType = "ProRata" ->
             Returned(calculateProRata(inputAccounts, totalQty, avgPx))
        [] allocType = "Percent" ->
             Returned(calculatePercent(inputAccounts, totalQty, avgPx))
        [] allocType = "FixedQty" ->
             Returned(calculateFixedQty(inputAccounts, avgPx))
        [] allocType = "AvgPrice" ->
             Returned(calculateAvgPrice(inputAccounts, avgPx))
        [] OTHER -> UnknownAllocType(allocType)

\* !acc.account || acc.account.trim() === ""
AccountIdEmpty_NoTrim(acc) == acc.account = <<>>

AccountIdEmpty(acc) == acc.account = <<>> \/ Trim(acc.account) = <<>>

\* The errors of the loop over the accounts, one per empty identifier.
RECURSIVE AccountIdErrors(_)
AccountIdErrors(accounts) ==
  IF accounts = <<>> THEN <<>>
  ELSE IF AccountIdEmpty(Head(accounts))
       THEN << <<"Account ID cannot be empty">> >> \o AccountIdErrors(Tail(accounts))
       ELSE AccountIdErrors(Tail(accounts))

\* Math.abs(totalPercent - 100) > 0.01
PercentOff_OverOnly(totalPercent) == (totalPercent - 100) * 100 > 1

PercentOff(totalPercent) == Abs(totalPercent - 100) * 100 > 1

\* totalAllocated > totalQty
OverAllocated_OrEqual(totalAllocated, totalQty) == totalAllocated >= totalQty

OverAllocated(totalAllocated, totalQty) == totalAllocated > totalQty

validate(allocType, accounts, totalQty) ==
  IF Len(accounts) = 0
  THEN [valid |-> FALSE, errors |-> << <<"At least one account is required">> >>]
  ELSE LET idErrors == AccountIdErrors(accounts)
           totalPercent == SumPercent(accounts)
           percentErrors ==
             IF allocType = "Percent" /\ PercentOff(totalPercent)
             THEN << <<"Total percentage must equal 100%", totalPercent>> >>
             ELSE <<>>
           totalAllocated == SumQty(accounts)
           qtyErrors ==
             IF allocType \in {"FixedQty", "AvgPrice"}
                /\ OverAllocated(totalAllocated, totalQty)
             THEN << <<"Total allocated quantity exceeds order quantity",
                       totalAllocated, totalQty>> >>
             ELSE <<>>
           errors == idErrors \o percentErrors \o qtyErrors
       IN  [valid |-> Len(errors) = 0, errors |-> errors]

\* ------------------------------------------------------ the state machine
VARIABLES
  call,      \* the call: its name and its arguments
  pc,        \* "ready" before the call runs, "done" after
  locals,    \* calculate's avgPx and totalQty
  accounts,  \* the caller's account list, as the call left it
  result     \* what the call returned or threw

allocVars == <<call, pc, locals, accounts, result>>

NoLocals == [avgPx |-> 0, totalQty |-> 0]

NoResult == [kind |-> "none"]

AllocInit ==
  /\ call \in CalculateCalls \cup ValidateCalls
  /\ pc = "ready"
  /\ locals = NoLocals
  /\ accounts = IF call.op = "calculate" THEN call.inputAccounts ELSE call.accounts
  /\ result = NoResult

\* AllocationEngine.calculate(allocType, order, inputAccounts).  It reads
\* its arguments and builds new records: the caller's list stays as it was.
Calculate ==
  /\ pc = "ready"
  /\ call.op = "calculate"
  /\ locals' = [avgPx |-> SetupAvgPx(call.order),
                totalQty |-> SetupTotalQty(call.order)]
  /\ result' = calculate(call.allocType, call.order, call.inputAccounts)
  /\ pc' = "done"
  /\ UNCHANGED <<call, accounts>>

\* AllocationEngine.validate(allocType, accounts, totalQty).
Validate ==
  /\ pc = "ready"
  /\ call.op = "validate"
  /\ result' = [kind |-> "return"] @@ validate(call.allocType, call.accounts, call.totalQty)
  /\ pc' = "done"
  /\ UNCHANGED <<call, locals, accounts>>

AllocNext == Calculate \/ Validate

AllocSpec == AllocInit /\ [][AllocNext]_allocVars

\* ------------------------------------------------------------ the claims
\* The input weight or percentage of a row, 0 when the field is undefined.
NumberOf(x) == IF x = Undefined THEN 0 ELSE x[1]

RECURSIVE SeqSum(_)
SeqSum(s) == IF s = <<>> THEN 0 ELSE Head(s) + SeqSum(Tail(s))

InputWeights == [i \in 1..Len(call.inputAccounts) |-> NumberOf(call.inputAccounts[i].qty)]

InputPercents == [i \in 1..Len(call.inputAccounts) |-> NumberOf(call.inputAccounts[i].percent)]

OutputQtys == [i \in 1..Len(result.accounts) |-> result.accounts[i].qty[1]]

OutputNetMoney == [i \in 1..Len(result.accounts) |-> result.accounts[i].netMoney[1]]

\* q is the floor of the quotient a / b.
IsFloorOf(q, a, b) ==
  IF b > 0 THEN q * b <= a /\ a < (q + 1) * b
  ELSE q * b >= a /\ a > (q + 1) * b

NonBlank(id) == \E k \in 1..Len(id) : id[k] # " "

Calculated(allocTypes) ==
  pc = "done" /\ call.op = "calculate" /\ call.allocType \in allocTypes

Validated(allocTypes) ==
  /\ pc = "done" /\ call.op = "validate" /\ call.allocType \in allocTypes
  /\ Len(call.accounts) > 0
  /\ \A i \in 1..Len(call.accounts) : NonBlank(call.accounts[i].account)

\* C1 as claimed: for ProRata and Percent, for every order with cumQty = T and
\* every non-empty account list, the output quantities sum to T and the
\* returned totalQty is T.
C1_SumEqualsTotal_AnyWeights ==
  (Calculated({"ProRata", "Percent"}) /\ Len(call.inputAccounts) > 0)
    => /\ result.kind = "return"
       /\ SeqSum(OutputQtys) = call.order.cumQty
       /\ result.totalQty = call.order.cumQty

\* C1 as amended: for Percent with any non-empty account list, and for ProRata
\* with a non-empty account list whose weights sum to a non-zero total, the
\* output quantities sum to cumQty and the returned totalQty is cumQty; for
\* ProRata with weights that sum to zero, every output qty is 0 and so is
\* their sum, whatever cumQty is.
C1_SumEqualsTotal ==
  (Calculated({"ProRata", "Percent"}) /\ Len(call.inputAccounts) > 0)
    => /\ result.kind = "return"
       /\ Len(result.accounts) = Len(call.inputAccounts)
       /\ IF call.allocType = "ProRata" /\ SeqSum(InputWeights) = 0
          THEN /\ \A i \in 1..Len(result.accounts) : OutputQtys[i] = 0
               /\ result.totalQty = 0
          ELSE /\ SeqSum(OutputQtys) = call.order.cumQty
               /\ result.totalQty = call.order.cumQty

\* ProRata over three accounts whose floors lose part of cumQty.
C1_Witness ==
  /\ Calculated({"ProRata"})
  /\ Len(call.inputAccounts) = 3
  /\ InputWeights = <<1, 1, 1>>
  /\ call.order.cumQty = 2
  /\ OutputQtys = <<0, 0, 2>>
  /\ result.totalQty = 2

\* C2: for ProRata with a non-zero total weight, every account but the last
\* gets floor(totalQty * weight / totalWeight) and the last account in input
\* order gets totalQty minus what the earlier accounts got.
C2_ProRataShares ==
  (Calculated({"ProRata"}) /\ SeqSum(InputWeights) # 0)
    => LET n == Len(call.inputAccounts)
           T == call.order.cumQty
       IN  /\ result.kind = "return"
           /\ Len(result.accounts) = n
           /\ \A i \in 1..(n - 1) :
                IsFloorOf(OutputQtys[i], T * InputWeights[i], SeqSum(InputWeights))
           /\ OutputQtys[n] = T - SeqSum(SubSeq(OutputQtys, 1, n - 1))

\* Three equal weights: the first two get the floor, the last the slack.
C2_Witness ==
  /\ Calculated({"ProRata"})
  /\ InputWeights = <<1, 1, 1>>
  /\ call.order.cumQty = 4
  /\ OutputQtys = <<1, 1, 2>>

\* C3: for Percent, every account but the last gets
\* floor(totalQty * percent / 100) and the last gets totalQty minus what was
\* assigned; so when the percentages sum to 100 and every
\* totalQty * percent / 100 is whole, each account gets totalQty * percent / 100.
C3_PercentShares ==
  (Calculated({"Percent"}) /\ Len(call.inputAccounts) > 0)
    => LET n == Len(call.inputAccounts)
           T == call.order.cumQty
       IN  /\ result.kind = "return"
           /\ Len(result.accounts) = n
           /\ \A i \in 1..(n - 1) : IsFloorOf(OutputQtys[i], T * InputPercents[i], 100)
           /\ OutputQtys[n] = T - SeqSum(SubSeq(OutputQtys, 1, n - 1))
           /\ ( /\ SeqSum(InputPercents) = 100
                /\ \A i \in 1..n : (T * InputPercents[i]) % 100 = 0 )
              => \A i \in 1..n : OutputQtys[i] * 100 = T * InputPercents[i]

\* Percentages 50, 0, 50 of 4 shares.
C3_Witness ==
  /\ Calculated({"Percent"})
  /\ InputPercents = <<50, 0, 50>>
  /\ call.order.cumQty = 4
  /\ OutputQtys = <<2, 0, 2>>

\* C4: ProRata with every input weight zero returns, with every output qty 0
\* and totalNetMoney 0, whatever the order and the non-empty account list.
C4_ZeroWeights ==
  ( /\ Calculated({"ProRata"})
    /\ Len(call.inputAccounts) > 0
    /\ \A i \in 1..Len(call.inputAccounts) : InputWeights[i] = 0 )
    => /\ result.kind = "return"
       /\ Len(result.accounts) = Len(call.inputAccounts)
       /\ \A i \in 1..Len(result.accounts) : result.accounts[i].qty = <<0>>
       /\ result.totalNetMoney = 0

\* Zero weights against a filled, priced order.
C4_Witness ==
  /\ Calculated({"ProRata"})
  /\ Len(call.inputAccounts) >= 2
  /\ \A i \in 1..Len(call.inputAccounts) : InputWeights[i] = 0
  /\ \E i \in 1..Len(call.inputAccounts) : call.inputAccounts[i].qty = Undefined
  /\ call.order.cumQty > 0
  /\ locals.avgPx > 0
  /\ result.kind = "return"
  /\ result.totalNetMoney = 0

\* C5: for FixedQty each output qty is the input qty, netMoney is
\* qty * avgPx, totalNetMoney is the sum of the netMoney and totalQty is the
\* sum of the input quantities, whatever order.cumQty is.
C5_FixedQty ==
  Calculated({"FixedQty"})
    => /\ result.kind = "return"
       /\ Len(result.accounts) = Len(call.inputAccounts)
       /\ \A i \in 1..Len(result.accounts) :
            /\ result.accounts[i].account = call.inputAccounts[i].account
            /\ result.accounts[i].qty = <<InputWeights[i]>>
            /\ result.accounts[i].netMoney = <<InputWeights[i] * locals.avgPx>>
       /\ result.totalNetMoney = SeqSum(OutputNetMoney)
       /\ result.totalQty = SeqSum(InputWeights)

\* Quantities 1 and 1 at price 2 against an order that filled 4.
C5_Witness ==
  /\ Calculated({"FixedQty"})
  /\ InputWeights = <<1, 1>>
  /\ locals.avgPx = 2
  /\ call.order.cumQty = 4
  /\ OutputNetMoney = <<2, 2>>
  /\ result.totalNetMoney = 4
  /\ result.totalQty = 2

\* C6: AvgPrice returns what FixedQty returns on the same order and the same
\* account list.
C6_AvgPriceAsFixedQty ==
  /\ Calculated({"AvgPrice"})
       => result = calculate("FixedQty", call.order, call.inputAccounts)
  /\ Calculated({"FixedQty"})
       => result = calculate("AvgPrice", call.order, call.inputAccounts)

\* AvgPrice on rows whose qty and percent differ, at a price.
C6_Witness ==
  /\ Calculated({"AvgPrice"})
  /\ InputWeights = <<1, 1>>
  /\ InputPercents = <<50, 50>>
  /\ locals.avgPx = 2
  /\ result.totalNetMoney = 4

\* C7: the price calculate uses is order.avgPx whenever it is defined (0
\* included), else order.price whenever it is defined, else 0; the quantity
\* apportioned is order.cumQty.
C7_PriceSelection ==
  (Calculated(AllocationType) /\ result.kind = "return")
    => LET px == IF call.order.avgPx # Undefined THEN call.order.avgPx[1]
                 ELSE IF call.order.price # Undefined THEN call.order.price[1]
                 ELSE 0
       IN  /\ locals.avgPx = px
           /\ locals.totalQty = call.order.cumQty
           /\ \A i \in 1..Len(result.accounts) : OutputNetMoney[i] = OutputQtys[i] * px

\* C8: calculate with a method name outside ProRata, Percent, FixedQty,
\* AvgPrice throws and returns no allocation result.
C8_UnknownTypeThrows ==
  (pc = "done" /\ call.op = "calculate" /\ call.allocType \notin AllocationType)
    => result.kind = "throw"

\* An unknown method name with accounts to allocate.
C8_Witness ==
  /\ pc = "done" /\ call.op = "calculate"
  /\ call.allocType = "Bogus"
  /\ Len(call.inputAccounts) = 2
  /\ call.order.cumQty > 0
  /\ result.kind = "throw"

\* C9: validate with FixedQty or AvgPrice, on a non-empty list whose
\* identifiers are all non-empty (blanks do not count), is valid exactly when
\* the input quantities sum to at most totalQty.
C9_FixedQtyWithinTotal ==
  Validated({"FixedQty", "AvgPrice"})
    => (result.valid <=> SeqSum([i \in 1..Len(call.accounts) |->
                                   NumberOf(call.accounts[i].qty)]) <= call.totalQty)

\* Quantities 1 and 1 fill a total of 2 exactly.
C9_Witness ==
  /\ Validated({"FixedQty"})
  /\ [i \in 1..Len(call.accounts) |-> NumberOf(call.accounts[i].qty)] = <<1, 1>>
  /\ call.totalQty = 2
  /\ result.valid

C11_ProRataValidation ==
  (pc = "done" /\ call.op = "validate" /\ call.allocType = "ProRata")
    => /\ result.valid <=>
            /\ Len(call.accounts) > 0
            /\ \A i \in 1..Len(call.accounts) : NonBlank(call.accounts[i].account)
       /\ Len(call.accounts) = 0 =>
            result.errors = << <<"At least one account is required">> >>
       /\ Len(call.accounts) > 0 =>
            Len(result.errors) =
              Cardinality({i \in 1..Len(call.accounts) :
                             ~NonBlank(call.accounts[i].account)})

\* Weights that sum to zero, of a total of zero, with proper identifiers.
C11_Witness ==
  /\ Validated({"ProRata"})
  /\ Len(call.accounts) = 2
  /\ \A i \in 1..Len(call.accounts) : NumberOf(call.accounts[i].qty) = 0
  /\ call.totalQty = 0
  /\ result.valid

\* ===================================================== JavaScript values
\* A tag value is a string or a number (Record<string, any>).
Str(s) == [type |-> "string", val |-> s]

Num(n) == [type |-> "number", val |-> n]

\* a === b
StrictEquals(a, b) == a.type = b.type /\ a.val = b.val

\* Array.prototype.includes
Includes(list, v) == \E i \in 1..Len(list) : StrictEquals(list[i], v)

Digits == <<"0", "1", "2", "3", "4", "5", "6", "7", "8", "9">>

IsDigit(c) == \E i \in 1..10 : Digits[i] = c

DigitVal(c) == (CHOOSE i \in 1..10 : Digits[i] = c) - 1

\* The decimal digits of n >= 0.
RECURSIVE NatToString(_)
NatToString(n) ==
  IF n < 10 THEN <<Digits[n + 1]>>
  ELSE Append(NatToString(n \div 10), Digits[(n % 10) + 1])

\* Number.prototype.toString on a whole number.
IntToString(n) == IF n < 0 THEN <<"-">> \o NatToString(-n) ELSE NatToString(n)

\* `${value}`: the display form of a value.
ToDisplay(v) == IF v.type = "number" THEN IntToString(v.val) ELSE v.val

RECURSIVE DigitsToNat(_)
DigitsToNat(s) ==
  IF s = <<>> THEN 0
  ELSE DigitsToNat(SubSeq(s, 1, Len(s) - 1)) * 10 + DigitVal(s[Len(s)])

AllDigits(s) == s # <<>> /\ \A i \in 1..Len(s) : IsDigit(s[i])

NaN == <<>>

\* Number(v) on whole-number literals: <<n>>, or NaN.  A string is trimmed,
\* the empty string is 0, and a string that is no numeric literal is NaN.
ToNumber(v) ==
  IF v.type = "number" THEN <<v.val>>
  ELSE LET t == Trim(v.val)
       IN  IF t = <<>> THEN <<0>>
           ELSE IF AllDigits(t) THEN <<DigitsToNat(t)>>
           ELSE IF Head(t) = "-" /\ AllDigits(Tail(t)) THEN <<-DigitsToNat(Tail(t))>>
           ELSE IF Head(t) = "+" /\ AllDigits(Tail(t)) THEN <<DigitsToNat(Tail(t))>>
           ELSE NaN

\* A value in a condition: "" and 0 are falsy.
ValueTruthy(v) == IF v.type = "number" THEN v.val # 0 ELSE v.val # <<>>

\* ---------------------------------------------------- JavaScript objects
\* An object is the sequence of its own properties in the order
\* Object.entries lists them: the keys that are array indices first, in
\* ascending numeric order, then the other keys in the order they were added.
Property(key, value) == [key |-> key, value |-> value]

\* A canonical numeric string: "0", or digits that do not start with "0".
IsArrayIndex(key) == AllDigits(key) /\ (Len(key) = 1 \/ Head(key) # "0")

\* key in obj
HasKey(obj, key) == \E i \in 1..Len(obj) : obj[i].key = key

\* obj[key], for a key that is there.
Get(obj, key) == obj[CHOOSE i \in 1..Len(obj) : obj[i].key = key].value

\* Where a new key goes.
InsertAt(obj, key) ==
  IF IsArrayIndex(key)
  THEN 1 + Cardinality({i \in 1..Len(obj) :
                          IsArrayIndex(obj[i].key)
                          /\ DigitsToNat(obj[i].key) < DigitsToNat(key)})
  ELSE Len(obj) + 1

\* obj[key] = value
Put(obj, key, value) ==
  IF HasKey(obj, key)
  THEN [i \in 1..Len(obj) |->
          IF obj[i].key = key THEN Property(key, value) ELSE obj[i]]
  ELSE LET k == InsertAt(obj, key)
       IN  SubSeq(obj, 1, k - 1) \o <<Property(key, value)>> \o SubSeq(obj, k, Len(obj))

\* Where the key of props[i] stands among the keys of props, for the first
\* property i of its key.
RankOf(props, i) ==
  IF IsArrayIndex(props[i].key)
  THEN 1 + Cardinality({ DigitsToNat(props[j].key) : j \in
                           { j \in 1..Len(props) :
                               /\ IsArrayIndex(props[j].key)
                               /\ DigitsToNat(props[j].key) < DigitsToNat(props[i].key) } })
  ELSE 1 + Cardinality({ props[j].key : j \in
                           { j \in 1..Len(props) :
                               IsArrayIndex(props[j].key) \/ j < i } })

\* The object of a literal { key: value, ... } or of assignments made one
\* after the other: each key once, with the value given last.
ObjectOf(props) ==
  LET firsts == { i \in 1..Len(props) :
                    \A j \in 1..(i - 1) : props[j].key # props[i].key }
      lastOf(i) == CHOOSE j \in 1..Len(props) :
                     /\ props[j].key = props[i].key
                     /\ \A k \in (j + 1)..Len(props) : props[k].key # props[i].key
  IN  [n \in 1..Cardinality(firsts) |->
         LET i == CHOOSE i \in firsts : RankOf(props, i) = n
         IN  Property(props[i].key, props[lastOf(i)].value)]

\* ================================================== validateFIXMessage
FIXMessageType == {"D", "8", "F", "G", "J", "AS", "AK", "P"}

REQUIRED_TAGS ==
  [t \in FIXMessageType |->
     CASE t = "D" -> <<11, 55, 54, 38, 40, 60>>
       [] t = "8" -> <<11, 17, 150, 39, 55, 54, 32, 31, 151, 14, 6>>
       [] t = "F" -> <<11, 41, 55, 54>>
       [] t = "G" -> <<11, 41, 55, 54, 38>>
       [] t = "J" -> <<70, 71, 78, 55, 54, 6, 75>>
       [] t = "AS" -> <<755, 87, 6>>
       [] t = "AK" -> <<664, 666, 773, 665>>
       [] t = "P" -> <<70, 75>>]

\* REQUIRED_TAGS[messageType] || []
RequiredTagsOf(messageType) ==
  IF messageType \in FIXMessageType THEN REQUIRED_TAGS[messageType] ELSE <<>>

SideValues == <<Str(<<"1">>), Str(<<"2">>), Str(<<"B", "u", "y">>), Str(<<"S", "e", "l", "l">>)>>

OrdTypeValues ==
  <<Str(<<"1">>), Str(<<"2">>), Str(<<"3">>), Str(<<"4">>),
    Str(<<"M", "a", "r", "k", "e", "t">>), Str(<<"L", "i", "m", "i", "t">>),
    Str(<<"S", "t", "o", "p">>),
    Str(<<"S", "t", "o", "p", "L", "i", "m", "i", "t">>)>>

qtyTags == <<38, 32, 80, 14, 151>>

priceTags == <<44, 31, 6>>

\* The loop over requiredTags: one error for every tag that is not a key.
RECURSIVE MissingTagErrors(_, _)
MissingTagErrors(requiredTags, tags) ==
  IF requiredTags = <<>> THEN <<>>
  ELSE (IF ~HasKey(tags, IntToString(Head(requiredTags)))
        THEN << <<"Missing required tag", Head(requiredTags)>> >>
        ELSE <<>>)
       \o MissingTagErrors(Tail(requiredTags), tags)

\* tags[tag] && !list.includes(tags[tag])
EnumInvalid(tags, tag, list) ==
  /\ HasKey(tags, IntToString(tag))
  /\ ValueTruthy(Get(tags, IntToString(tag)))
  /\ ~Includes(list, Get(tags, IntToString(tag)))

\* Number(tags[tag]) < 0; a comparison with NaN is false.
QtyInvalid_OrZero(v) == ToNumber(v) # NaN /\ ToNumber(v)[1] <= 0

QtyInvalid(v) == ToNumber(v) # NaN /\ ToNumber(v)[1] < 0

\* Number(tags[tag]) <= 0
PriceInvalid_AllowZero(v) == ToNumber(v) # NaN /\ ToNumber(v)[1] < 0

PriceInvalid(v) == ToNumber(v) # NaN /\ ToNumber(v)[1] <= 0

\* The loop over qtyTags.
RECURSIVE QtyErrors(_, _)
QtyErrors(list, tags) ==
  IF list = <<>> THEN <<>>
  ELSE (IF HasKey(tags, IntToString(Head(list)))
           /\ QtyInvalid(Get(tags, IntToString(Head(list))))
        THEN << <<"Invalid quantity in tag", Head(list)>> >>
        ELSE <<>>)
       \o QtyErrors(Tail(list), tags)

\* The loop over priceTags.
RECURSIVE PriceErrors(_, _)
PriceErrors(list, tags) ==
  IF list = <<>> THEN <<>>
  ELSE (IF HasKey(tags, IntToString(Head(list)))
           /\ PriceInvalid(Get(tags, IntToString(Head(list))))
        THEN << <<"Invalid price in tag", Head(list)>> >>
        ELSE <<>>)
       \o PriceErrors(Tail(list), tags)

validateFIXMessage_StopAtMissing(messageType, tags) ==
  LET missing == MissingTagErrors(RequiredTagsOf(messageType), tags)
      errors ==
        IF missing # <<>> THEN missing
        ELSE (IF EnumInvalid(tags, 54, SideValues)
              THEN << <<"Invalid Side value (tag 54)", 54>> >> ELSE <<>>)
             \o (IF EnumInvalid(tags, 40, OrdTypeValues)
                 THEN << <<"Invalid OrdType value (tag 40)", 40>> >> ELSE <<>>)
             \o QtyErrors(qtyTags, tags)
             \o PriceErrors(priceTags, tags)
  IN  [valid |-> Len(errors) = 0, errors |-> errors]

validateFIXMessage(messageType, tags) ==
  LET errors ==
        MissingTagErrors(RequiredTagsOf(messageType), tags)
        \o (IF EnumInvalid(tags, 54, SideValues)
            THEN << <<"Invalid Side value (tag 54)", 54>> >> ELSE <<>>)
        \o (IF EnumInvalid(tags, 40, OrdTypeValues)
            THEN << <<"Invalid OrdType value (tag 40)", 40>> >> ELSE <<>>)
        \o QtyErrors(qtyTags, tags)
        \o PriceErrors(priceTags, tags)
  IN  [valid |-> Len(errors) = 0, errors |-> errors]

\* ------------------------------------------- the inputs of validateFIXMessage
MaxMissing == 1

\* The values a caller puts in a checked tag: numerals with and without a
\* sign, the empty and the blank string, text, and numbers; and with them the
\* accepted codes and another code.
NumberProbes ==
  { Str(<<>>), Str(<<" ">>), Str(<<"0">>), Str(<<"1">>), Str(<<"-", "1">>),
    Str(<<"5">>), Str(<<"a", "b", "c">>),
    Num(0), Num(1), Num(-1), Num(5) }

ProbeValues ==
  { SideValues[i] : i \in 1..Len(SideValues) }
  \cup { OrdTypeValues[i] : i \in 1..Len(OrdTypeValues) }
  \cup { Str(<<"9">>) }
  \cup NumberProbes

ProbeTags == {54, 40, 38, 32, 80, 14, 151, 44, 31, 6}

\* A well-formed value for a tag.
DefaultValue(tag) ==
  IF tag = 54 THEN Str(<<"1">>)
  ELSE IF tag = 40 THEN Str(<<"2">>)
  ELSE Str(<<"5">>)

\* The object a caller builds: a literal with the tags of `list` but those
\* of `drop`.
BuildTags(list, drop) ==
  LET kept == { i \in 1..Len(list) : list[i] \notin drop }
      nth(n) == CHOOSE i \in kept : Cardinality({ j \in kept : j <= i }) = n
  IN  ObjectOf([n \in 1..Cardinality(kept) |->
                  Property(IntToString(list[nth(n)]), DefaultValue(list[nth(n)]))])

SeqRange(list) == { list[i] : i \in 1..Len(list) }

DropSets(messageType) ==
  { d \in SUBSET SeqRange(RequiredTagsOf(messageType)) : Cardinality(d) <= MaxMissing }

\* One tag set to a probe value, or none: the Side and OrdType tags take every
\* probe value, the quantity and price tags the number probes.
Overrides ==
  { <<>> }
  \cup { <<tag, v>> : tag \in {54, 40}, v \in ProbeValues }
  \cup { <<tag, v>> : tag \in ProbeTags \ {54, 40}, v \in NumberProbes }

WithOverride(tags, o) ==
  IF o = <<>> THEN tags ELSE Put(tags, IntToString(o[1]), o[2])

\* The calls for the message types of `types`.
FixValidationCalls(types) ==
  UNION { UNION { LET base == BuildTags(RequiredTagsOf(t), d)
                  IN  { [op |-> "validateFIXMessage", messageType |-> t,
                         tags |-> WithOverride(base, o)] : o \in Overrides } :
                  d \in DropSets(t) } :
          t \in types }

\* -------------------------------------- the validator as a state machine
FixValInit ==
  /\ call \in FixValidationCalls(FIXMessageType \cup {"X"})
  /\ pc = "ready"
  /\ locals = NoLocals
  /\ accounts = <<>>
  /\ result = NoResult

\* validateFIXMessage(messageType, tags)
ValidateFIX ==
  /\ pc = "ready"
  /\ call.op = "validateFIXMessage"
  /\ result' = [kind |-> "return"] @@ validateFIXMessage(call.messageType, call.tags)
  /\ pc' = "done"
  /\ UNCHANGED <<call, locals, accounts>>

FixValNext == ValidateFIX

FixValSpec == FixValInit /\ [][FixValNext]_allocVars

\* ------------------------------------------------ the validator's claims
FixValidated == pc = "done" /\ call.op = "validateFIXMessage"

TagPresent(tag) == \E i \in 1..Len(call.tags) : call.tags[i].key = IntToString(tag)

TagValue(tag) ==
  call.tags[CHOOSE i \in 1..Len(call.tags) : call.tags[i].key = IntToString(tag)].value

HasError(e) == \E i \in 1..Len(result.errors) : result.errors[i] = e

MissingTags ==
  { t \in SeqRange(REQUIRED_TAGS[call.messageType]) : ~TagPresent(t) }

AcceptedSides == { <<"1">>, <<"2">>, <<"B", "u", "y">>, <<"S", "e", "l", "l">> }

AcceptedOrdTypes ==
  { <<"1">>, <<"2">>, <<"3">>, <<"4">>, <<"M", "a", "r", "k", "e", "t">>,
    <<"L", "i", "m", "i", "t">>, <<"S", "t", "o", "p">>,
    <<"S", "t", "o", "p", "L", "i", "m", "i", "t">> }

Accepted(v, codes) == v.type = "string" /\ v.val \in codes

C13_EnumRejected ==
  FixValidated
    => /\ (TagPresent(54) /\ ~Accepted(TagValue(54), AcceptedSides))
            => (~result.valid /\ HasError(<<"Invalid Side value (tag 54)", 54>>))
       /\ (TagPresent(40) /\ ~Accepted(TagValue(40), AcceptedOrdTypes))
            => (~result.valid /\ HasError(<<"Invalid OrdType value (tag 40)", 40>>))

\* A value that is a number or a numeral (not the empty or a blank string).
IsNumeric(v) ==
  /\ ToNumber(v) # NaN
  /\ v.type = "string" => \E k \in 1..Len(v.val) : v.val[k] # " "

C15_NonNumericFails ==
  FixValidated
    => /\ \A t \in {38, 32, 80, 14, 151} :
            (TagPresent(t) /\ ToNumber(TagValue(t)) = NaN)
              => (~result.valid /\ HasError(<<"Invalid quantity in tag", t>>))
       /\ \A t \in {44, 31, 6} :
            (TagPresent(t) /\ ToNumber(TagValue(t)) = NaN)
              => (~result.valid /\ HasError(<<"Invalid price in tag", t>>))

\* ======================================================== FixEngineAdapter
\* The character U+0001; like every character it is one element of a string.
SOH == "SOH"

BEGIN_STRING == <<"F", "I", "X", ".", "4", ".", "4">>

\* The characters U+0022, U+005C and U+0060.
QUOTE == "QUOTE"

BACKTICK == "BACKTICK"

BACKSLASH == "BACKSLASH"

\* The printable characters U+0020 .. U+007E, in code order.
Ascii ==
  <<" ", "!", QUOTE, "#", "$", "%", "&", "'", "(", ")", "*", "+",
     ",", "-", ".", "/", "0", "1", "2", "3", "4", "5", "6", "7",
     "8", "9", ":", ";", "<", "=", ">", "?", "@", "A", "B", "C",
     "D", "E", "F", "G", "H", "I", "J", "K", "L", "M", "N", "O",
     "P", "Q", "R", "S", "T", "U", "V", "W", "X", "Y", "Z", "[",
     BACKSLASH, "]", "^", "_", BACKTICK, "a", "b", "c", "d", "e", "f", "g",
     "h", "i", "j", "k", "l", "m", "n", "o", "p", "q", "r", "s",
     "t", "u", "v", "w", "x", "y", "z", "{", "|", "}", "~">>

\* String.prototype.charCodeAt
CharCode(c) ==
  IF c = SOH THEN 1 ELSE 31 + (CHOOSE i \in 1..Len(Ascii) : Ascii[i] = c)

\* String.prototype.padStart with a one-character filler.
RECURSIVE PadStart(_, _, _)
PadStart(s, n, c) == IF Len(s) >= n THEN s ELSE PadStart(<<c>> \o s, n, c)

\* A parameter that may be left out: Undefined, or <<value>>.
ParamTruthy(p) == p # Undefined /\ ValueTruthy(p[1])

\* The loop of calculateChecksum: the sum of the character codes, added up
\* by halves to keep the evaluation shallow.
RECURSIVE SumCharCodes(_)
SumCharCodes(message) ==
  IF message = <<>> THEN 0
  ELSE IF Len(message) = 1 THEN CharCode(message[1])
  ELSE LET half == Len(message) \div 2
       IN  SumCharCodes(SubSeq(message, 1, half))
             + SumCharCodes(SubSeq(message, half + 1, Len(message)))

calculateChecksum_NoPad(message) == NatToString(SumCharCodes(message) % 256)

calculateChecksum(message) ==
  PadStart(NatToString(SumCharCodes(message) % 256), 3, "0")

\* The fields of `new Date()` that getTransactTime reads.
getTransactTime(now) ==
  NatToString(now.year)
    \o PadStart(NatToString(now.month + 1), 2, "0")
    \o PadStart(NatToString(now.date), 2, "0")
    \o <<"-">> \o PadStart(NatToString(now.hours), 2, "0")
    \o <<":">> \o PadStart(NatToString(now.minutes), 2, "0")
    \o <<":">> \o PadStart(NatToString(now.seconds), 2, "0")

mapSide(side) == IF side = "Buy" THEN <<"1">> ELSE <<"2">>

mapOrderType(orderType) ==
  CASE orderType = "Market" -> <<"1">>
    [] orderType = "Limit" -> <<"2">>
    [] orderType = "Stop" -> <<"3">>
    [] orderType = "StopLimit" -> <<"4">>
    [] OTHER -> <<"1">>

\* The loop of createMessage over Object.entries(tags): the fields one after
\* the other, joined by halves to keep the evaluation shallow.
RECURSIVE BodyOf(_)
BodyOf(entries) ==
  IF entries = <<>> THEN <<>>
  ELSE IF Len(entries) = 1
  THEN (IF entries[1].key # <<"3", "5">>
        THEN entries[1].key \o <<"=">> \o ToDisplay(entries[1].value) \o <<SOH>>
        ELSE <<>>)
  ELSE LET half == Len(entries) \div 2
       IN  BodyOf(SubSeq(entries, 1, half))
             \o BodyOf(SubSeq(entries, half + 1, Len(entries)))

createMessage(msgType, tags) ==
  LET body == <<"3", "5", "=">> \o msgType \o <<SOH>> \o BodyOf(tags)
      bodyLength == Len(body)
      message == <<"8", "=">> \o BEGIN_STRING \o <<SOH>>
                   \o <<"9", "=">> \o NatToString(bodyLength) \o <<SOH>> \o body
      checksum == calculateChecksum(message)
  IN  [msgType |-> msgType,
       tags |-> Put(Put(Put(tags, <<"8">>, Str(BEGIN_STRING)),
                        <<"9">>, Num(bodyLength)),
                    <<"1", "0">>, Str(checksum)),
       rawFix |-> message \o <<"1", "0", "=">> \o checksum \o <<SOH>>]

\* params.transactTime || this.getTransactTime()
TransactTimeOf(params, now) ==
  IF ParamTruthy(params.transactTime) THEN params.transactTime[1]
  ELSE Str(getTransactTime(now))

\* The price rule read without its order-type test.
CarriesPrice_AnyType(params) == params.price # Undefined

\* if (params.price !== undefined && params.orderType !== "Market")
CarriesPrice(params) == params.price # Undefined /\ params.orderType # "Market"

buildNewOrderSingle(params, now) ==
  LET t0 == ObjectOf(<<Property(<<"1", "1">>, params.clOrdId),
                       Property(<<"5", "5">>, params.symbol),
                       Property(<<"5", "4">>, Str(mapSide(params.side))),
                       Property(<<"3", "8">>, params.quantity),
                       Property(<<"4", "0">>, Str(mapOrderType(params.orderType))),
                       Property(<<"6", "0">>, TransactTimeOf(params, now))>>)
      t1 == IF CarriesPrice(params)
            THEN Put(t0, <<"4", "4">>, params.price[1]) ELSE t0
      t2 == IF ParamTruthy(params.securityType)
            THEN Put(t1, <<"1", "6", "7">>, params.securityType[1]) ELSE t1
      t3 == IF params.assetClass = "FX" /\ ParamTruthy(params.currencyPair)
            THEN Put(t2, <<"5", "5">>, params.currencyPair[1]) ELSE t2
      t4 == IF params.assetClass = "Futures" /\ ParamTruthy(params.maturityMonthYear)
            THEN Put(t3, <<"2", "0", "0">>, params.maturityMonthYear[1]) ELSE t3
      t5 == IF params.assetClass = "Options" /\ ParamTruthy(params.strikePrice)
            THEN Put(t4, <<"2", "0", "2">>, params.strikePrice[1]) ELSE t4
      t6 == IF params.assetClass = "Options" /\ ParamTruthy(params.optionType)
            THEN Put(t5, <<"2", "0", "1">>, params.optionType[1]) ELSE t5
      t7 == IF params.assetClass = "Options" /\ ParamTruthy(params.underlyingSymbol)
            THEN Put(t6, <<"3", "1", "1">>, params.underlyingSymbol[1]) ELSE t6
  IN  createMessage(<<"D">>, t7)

buildExecutionReport(params, now) ==
  createMessage(<<"8">>,
    ObjectOf(<<Property(<<"3", "7">>, params.orderId),
               Property(<<"1", "1">>, params.clOrdId),
               Property(<<"1", "7">>, params.execId),
               Property(<<"1", "5", "0">>, params.execType),
               Property(<<"3", "9">>, params.orderStatus),
               Property(<<"5", "5">>, params.symbol),
               Property(<<"5", "4">>, Str(mapSide(params.side))),
               Property(<<"3", "2">>, params.lastQty),
               Property(<<"3", "1">>, params.lastPx),
               Property(<<"1", "4">>, params.cumQty),
               Property(<<"6">>, params.avgPx),
               Property(<<"1", "5", "1">>, params.leavesQty),
               Property(<<"6", "0">>, TransactTimeOf(params, now))>>))

\* String.prototype.indexOf for one character: the 0-based index, or -1.
IndexOf(s, c) ==
  IF \E i \in 1..Len(s) : s[i] = c
  THEN (CHOOSE i \in 1..Len(s) : s[i] = c /\ \A j \in 1..(i - 1) : s[j] # c) - 1
  ELSE -1

\* String.prototype.split on one character.
RECURSIVE Split(_, _)
Split(s, sep) ==
  LET k == IndexOf(s, sep)
  IN  IF k < 0 THEN <<s>>
      ELSE <<SubSeq(s, 1, k)>> \o Split(SubSeq(s, k + 2, Len(s)), sep)

\* .filter(Boolean) on strings: the empty string is dropped.
RECURSIVE FilterBoolean(_)
FilterBoolean(list) ==
  IF list = <<>> THEN <<>>
  ELSE (IF Head(list) # <<>> THEN <<Head(list)>> ELSE <<>>)
       \o FilterBoolean(Tail(list))

\* if (equalIndex > 0)
HasTag_AllowEmptyTag(equalIndex) == equalIndex >= 0

HasTag(equalIndex) == equalIndex > 0

\* pair.substring(equalIndex + 1)
ValueOf_LastField(pair, equalIndex) ==
  LET fields == Split(pair, "=") IN fields[Len(fields)]

ValueOf(pair, equalIndex) == SubSeq(pair, equalIndex + 2, Len(pair))

PROTO == <<"_", "_", "p", "r", "o", "t", "o", "_", "_">>

\* tags[tag] = value on a plain object: the key __proto__ is the accessor of
\* Object.prototype, whose setter ignores a string and adds no property.
Assign(tags, tag, value) ==
  IF tag = PROTO THEN tags ELSE Put(tags, tag, Str(value))

\* The loop of parseMessage over pairs.
RECURSIVE ParseLoop(_, _)
ParseLoop(pairs, acc) ==
  IF pairs = <<>> THEN acc
  ELSE LET pair == Head(pairs)
           equalIndex == IndexOf(pair, "=")
           tag == SubSeq(pair, 1, equalIndex)
           value == ValueOf(pair, equalIndex)
       IN  ParseLoop(Tail(pairs),
             IF HasTag(equalIndex)
             THEN [msgType |-> IF tag = <<"3", "5">> THEN value ELSE acc.msgType,
                   tags |-> Assign(acc.tags, tag, value)]
             ELSE acc)

parseMessage(rawFix) ==
  LET pairs == FilterBoolean(Split(rawFix, SOH))
      parsed == ParseLoop(pairs, [msgType |-> <<"D">>, tags |-> <<>>])
  IN  [msgType |-> parsed.msgType, tags |-> parsed.tags, rawFix |-> rawFix]

\* rawFix.replace(new RegExp(SOH, "g"), "|")
toDisplayString(rawFix) ==
  [i \in 1..Len(rawFix) |-> IF rawFix[i] = SOH THEN "|" ELSE rawFix[i]]

\* displayString.replace(/\|/g, SOH)
RECURSIVE fromDisplayString_FirstOnly(_)
fromDisplayString_FirstOnly(displayString) ==
  IF displayString = <<>> THEN <<>>
  ELSE IF Head(displayString) = "|" THEN <<SOH>> \o Tail(displayString)
  ELSE <<Head(displayString)>> \o fromDisplayString_FirstOnly(Tail(displayString))

fromDisplayString(displayString) ==
  [i \in 1..Len(displayString) |->
     IF displayString[i] = "|" THEN SOH ELSE displayString[i]]

\* --------------------------------------------------- the codec's inputs
MaxSegments == 3

\* What the asset-class fields of a new order can hold.
AssetFields ==
  { [assetClass |-> a, currencyPair |-> c, maturityMonthYear |-> m,
     strikePrice |-> k, optionType |-> o, underlyingSymbol |-> u] :
      a \in {"Equity"}, c \in {Undefined, <<Str(<<"E", "/", "U">>)>>},
      m \in {Undefined}, k \in {Undefined}, o \in {Undefined}, u \in {Undefined} }
  \cup
  { [assetClass |-> a, currencyPair |-> c, maturityMonthYear |-> m,
     strikePrice |-> k, optionType |-> o, underlyingSymbol |-> u] :
      a \in {"FX"}, c \in {Undefined, <<Str(<<"E", "/", "U">>)>>},
      m \in {Undefined}, k \in {Undefined}, o \in {Undefined}, u \in {Undefined} }
  \cup
  { [assetClass |-> a, currencyPair |-> c, maturityMonthYear |-> m,
     strikePrice |-> k, optionType |-> o, underlyingSymbol |-> u] :
      a \in {"Futures"}, c \in {Undefined},
      m \in {Undefined, <<Str(<<"2", "0", "2", "6", "1", "2">>)>>},
      k \in {Undefined}, o \in {Undefined}, u \in {Undefined} }
  \cup
  { [assetClass |-> a, currencyPair |-> c, maturityMonthYear |-> m,
     strikePrice |-> k, optionType |-> o, underlyingSymbol |-> u] :
      a \in {"Options"}, c \in {Undefined}, m \in {Undefined},
      k \in {Undefined, <<Num(0)>>, <<Num(7)>>},
      o \in {Undefined, <<Str(<<"C">>)>>},
      u \in {Undefined, <<Str(<<"U">>)>>} }

NewOrderSingleParams ==
  { [clOrdId |-> Str(<<"O", "1">>), symbol |-> s, side |-> d,
     quantity |-> Num(10), orderType |-> t, price |-> p, transactTime |-> tt,
     securityType |-> st] @@ f :
      s \in {Str(<<"I", "B", "M">>), Str(<<"A", "=", "B">>)},
      d \in {"Buy", "Sell"},
      t \in {"Market", "Limit", "Stop", "StopLimit"},
      p \in {Undefined, <<Num(0)>>, <<Num(5)>>},
      tt \in {Undefined, <<Str(<<>>)>>, <<Str(<<"T", "1">>)>>},
      st \in {Undefined, <<Str(<<"C", "S">>)>>},
      f \in AssetFields }

ExecutionReportParams ==
  { [orderId |-> Str(<<"X", "1">>), clOrdId |-> Str(<<"O", "1">>),
     execId |-> Str(<<"E", "1">>), execType |-> Str(<<"F">>),
     orderStatus |-> Str(<<"2">>), symbol |-> Str(<<"I", "B", "M">>),
     side |-> d, lastQty |-> q, lastPx |-> Num(5), cumQty |-> Num(10),
     avgPx |-> Num(5), leavesQty |-> Num(0), transactTime |-> tt] :
      d \in {"Buy", "Sell"}, q \in {Num(0), Num(10)},
      tt \in {Undefined, <<Str(<<>>)>>, <<Str(<<"T", "1">>)>>} }

\* The clock: 2026-01-05 09:03:07 UTC.
Now == [year |-> 2026, month |-> 0, date |-> 5, hours |-> 9, minutes |-> 3, seconds |-> 7]

\* The segments a wire string is put together from.
WireSegments ==
  { <<>>, <<"3", "5", "=", "5">>, <<"3", "5", "=", "3">>, <<"3", "=", "5">>, <<"3", "=">>, <<"=", "5">>, <<"3", "5">>,
    <<"3", "=", "5", "=", "3">>, <<"3", "|", "=", "5">>, PROTO \o <<"=", "5">> }

\* Array.prototype.join
RECURSIVE Join(_, _)
Join(list, sep) ==
  IF list = <<>> THEN <<>>
  ELSE IF Len(list) = 1 THEN list[1]
  ELSE list[1] \o <<sep>> \o Join(Tail(list), sep)

\* The lists of up to n segments.
SegmentLists(n) == UNION { [1..k -> WireSegments] : k \in 1..n }

BuilderCalls ==
  { [op |-> "buildNewOrderSingle", params |-> p, now |-> Now] : p \in NewOrderSingleParams }
  \cup { [op |-> "buildExecutionReport", params |-> p, now |-> Now] :
           p \in ExecutionReportParams }

\* The calls on the wire strings of up to n segments.
WireCalls(n) ==
  { [op |-> o, segments |-> l, rawFix |-> Join(l, SOH)] :
      o \in {"parseMessage", "toDisplayString"}, l \in SegmentLists(n) }

\* ------------------------------------------ the codec as a state machine
\* `result` is what a builder or fromDisplayString returned, `locals` what
\* parseMessage or toDisplayString returned.
CodecInit ==
  /\ call \in BuilderCalls \cup WireCalls(MaxSegments)
  /\ pc = "ready"
  /\ locals = NoLocals
  /\ accounts = <<>>
  /\ result = NoResult

BuildNewOrderSingle ==
  /\ pc = "ready"
  /\ call.op = "buildNewOrderSingle"
  /\ result' = [kind |-> "message"] @@ buildNewOrderSingle(call.params, call.now)
  /\ pc' = "built"
  /\ UNCHANGED <<call, locals, accounts>>

BuildExecutionReport ==
  /\ pc = "ready"
  /\ call.op = "buildExecutionReport"
  /\ result' = [kind |-> "message"] @@ buildExecutionReport(call.params, call.now)
  /\ pc' = "built"
  /\ UNCHANGED <<call, locals, accounts>>

\* parseMessage, on the message just built or on the wire string given.
ParseMessage ==
  /\ \/ /\ pc = "built"
        /\ locals' = parseMessage(result.rawFix)
     \/ /\ pc = "ready"
        /\ call.op = "parseMessage"
        /\ locals' = parseMessage(call.rawFix)
  /\ pc' = "done"
  /\ UNCHANGED <<call, accounts, result>>

ToDisplayString ==
  /\ pc = "ready"
  /\ call.op = "toDisplayString"
  /\ locals' = toDisplayString(call.rawFix)
  /\ pc' = "displayed"
  /\ UNCHANGED <<call, accounts, result>>

FromDisplayString ==
  /\ pc = "displayed"
  /\ result' = [kind |-> "string", value |-> fromDisplayString(locals)]
  /\ pc' = "done"
  /\ UNCHANGED <<call, locals, accounts>>

CodecNext ==
  \/ BuildNewOrderSingle
  \/ BuildExecutionReport
  \/ ParseMessage
  \/ ToDisplayString
  \/ FromDisplayString

CodecSpec == CodecInit /\ [][CodecNext]_allocVars

\* ---------------------------------------------------- the codec's claims
Built(ops) == pc \in {"built", "done"} /\ call.op \in ops

RoundTripped(ops) == pc = "done" /\ call.op \in ops

\* C16: for a message built by buildNewOrderSingle, parseMessage on its wire
\* string recovers every tag of the built mapping with the display form of
\* its value (ClOrdID, the symbol, the quantity and a price that was sent
\* among them), and the message type from tag 35.
C16_RoundTrip ==
  RoundTripped({"buildNewOrderSingle"})
    => /\ \A i \in 1..Len(result.tags) :
            /\ HasKey(locals.tags, result.tags[i].key)
            /\ Get(locals.tags, result.tags[i].key)
                 = Str(ToDisplay(result.tags[i].value))
       /\ Get(locals.tags, <<"1", "1">>) = Str(ToDisplay(call.params.clOrdId))
       /\ Get(locals.tags, <<"3", "8">>) = Str(ToDisplay(call.params.quantity))
       /\ Get(locals.tags, <<"5", "5">>)
            \in { Str(ToDisplay(call.params.symbol)) }
                  \cup { Str(ToDisplay(call.params.currencyPair[k])) :
                           k \in 1..Len(call.params.currencyPair) }
       /\ (call.params.price # Undefined /\ call.params.orderType # "Market")
            => /\ HasKey(locals.tags, <<"4", "4">>)
               /\ Get(locals.tags, <<"4", "4">>) = Str(ToDisplay(call.params.price[1]))
       /\ HasKey(locals.tags, <<"3", "5">>)
       /\ Get(locals.tags, <<"3", "5">>) = Str(result.msgType)
       /\ locals.msgType = result.msgType
       /\ locals.msgType = <<"D">>

\* A limit order for the symbol A=B at price 5, with the clock's time.
C16_Witness ==
  /\ RoundTripped({"buildNewOrderSingle"})
  /\ call.params.symbol = Str(<<"A", "=", "B">>)
  /\ call.params.orderType = "Limit"
  /\ call.params.price = <<Num(5)>>
  /\ call.params.transactTime = Undefined
  /\ call.params.assetClass = "Equity"
  /\ Get(locals.tags, <<"5", "5">>) = Str(<<"A", "=", "B">>)
  /\ Get(locals.tags, <<"4", "4">>) = Str(<<"5">>)
  /\ Get(locals.tags, <<"6", "0">>) = Str(<<"2", "0", "2", "6", "0", "1", "0", "5", "-", "0", "9", ":", "0", "3", ":", "0", "7">>)

\* The wire string without its last 7 characters, the checksum field.
BeforeChecksum == SubSeq(result.rawFix, 1, Len(result.rawFix) - 7)

ChecksumField == SubSeq(result.rawFix, Len(result.rawFix) - 6, Len(result.rawFix))

\* The sum of the character codes of s[lo] .. s[hi].
RECURSIVE CodeSum(_, _, _)
CodeSum(s, lo, hi) ==
  IF lo > hi THEN 0
  ELSE IF lo = hi THEN CharCode(s[lo])
  ELSE CodeSum(s, lo, (lo + hi) \div 2) + CodeSum(s, ((lo + hi) \div 2) + 1, hi)

\* C17: a built wire string ends in 10=ddd and the delimiter, ddd being three
\* digits whose number is the sum of the character codes of everything before
\* the checksum field, the 8= and 9= fields included, modulo 256.
C17_Checksum ==
  Built({"buildNewOrderSingle", "buildExecutionReport"})
    => /\ Len(result.rawFix) > 7
       /\ SubSeq(ChecksumField, 1, 3) = <<"1", "0", "=">>
       /\ ChecksumField[7] = SOH
       /\ AllDigits(SubSeq(ChecksumField, 4, 6))
       /\ DigitsToNat(SubSeq(ChecksumField, 4, 6))
            = CodeSum(BeforeChecksum, 1, Len(BeforeChecksum)) % 256
       /\ SubSeq(BeforeChecksum, 1, 12)
            = <<"8", "=">> \o BEGIN_STRING \o <<SOH, "9", "=">>
       /\ BeforeChecksum[Len(BeforeChecksum)] = SOH
       /\ Get(result.tags, <<"1", "0">>) = Str(SubSeq(ChecksumField, 4, 6))

\* A message whose checksum is below 100 and is written with a leading zero.
C17_Witness ==
  /\ Built({"buildNewOrderSingle"})
  /\ ChecksumField[4] = "0"
  /\ ChecksumField[5] # "0"

\* The tags a builder inserts, in the order it inserts them.
InsertedTags ==
  IF call.op = "buildExecutionReport"
  THEN <<37, 11, 17, 150, 39, 55, 54, 32, 31, 14, 6, 151, 60>>
  ELSE <<11, 55, 54, 38, 40, 60>>
         \o (IF call.params.price # Undefined /\ call.params.orderType # "Market"
             THEN <<44>> ELSE <<>>)
         \o (IF ParamTruthy(call.params.securityType) THEN <<167>> ELSE <<>>)
         \o (IF call.params.assetClass = "Futures"
                /\ ParamTruthy(call.params.maturityMonthYear) THEN <<200>> ELSE <<>>)
         \o (IF call.params.assetClass = "Options"
                /\ ParamTruthy(call.params.strikePrice) THEN <<202>> ELSE <<>>)
         \o (IF call.params.assetClass = "Options"
                /\ ParamTruthy(call.params.optionType) THEN <<201>> ELSE <<>>)
         \o (IF call.params.assetClass = "Options"
                /\ ParamTruthy(call.params.underlyingSymbol) THEN <<311>> ELSE <<>>)

\* The tag of every field of the built wire string, in wire order.
WireTags ==
  LET fields == FilterBoolean(Split(result.rawFix, SOH))
  IN  [i \in 1..Len(fields) |-> SubSeq(fields[i], 1, IndexOf(fields[i], "="))]

\* C18: a built wire string is tag 8, tag 9, tag 35, then the business tags
\* in the order the builder inserted them, then tag 10.
C18_InsertionOrder ==
  Built({"buildNewOrderSingle", "buildExecutionReport"})
    => WireTags = <<<<"8">>, <<"9">>, <<"3", "5">>>>
                    \o [i \in 1..Len(InsertedTags) |-> IntToString(InsertedTags[i])]
                    \o <<<<"1", "0">>>>

\* The segments of the call that hold a tag: those with "=" after at least
\* one character.
TagSegments(skipEmptyTag) ==
  { i \in 1..Len(call.segments) :
      /\ \E k \in 1..Len(call.segments[i]) : call.segments[i][k] = "="
      /\ skipEmptyTag => call.segments[i][1] # "=" }

TagOf(seg) ==
  SubSeq(seg, 1, (CHOOSE k \in 1..Len(seg) :
                    seg[k] = "=" /\ \A j \in 1..(k - 1) : seg[j] # "=") - 1)

RestOf(seg) == SubSeq(seg, Len(TagOf(seg)) + 2, Len(seg))

\* What parseMessage is to return when the segments of `held` hold a tag.
ParsedAs(held) ==
  /\ locals.rawFix = call.rawFix
  /\ \A i \in held : HasKey(locals.tags, TagOf(call.segments[i]))
  /\ \A n \in 1..Len(locals.tags) :
       /\ \E i \in held : TagOf(call.segments[i]) = locals.tags[n].key
       /\ \A i \in held :
            ( /\ TagOf(call.segments[i]) = locals.tags[n].key
              /\ \A j \in held : j > i =>
                   TagOf(call.segments[j]) # locals.tags[n].key )
              => locals.tags[n].value = Str(RestOf(call.segments[i]))
  /\ IF \E i \in held : TagOf(call.segments[i]) = <<"3", "5">>
     THEN HasKey(locals.tags, <<"3", "5">>)
          /\ locals.msgType = Get(locals.tags, <<"3", "5">>).val
     ELSE locals.msgType = <<"D">>

\* C19 as stated: parseMessage returns for every wire string; empty segments
\* and segments without "=" add no tag, every other segment is split on its
\* first "=" and is in the mapping, and without a tag 35 the type is "D".
C19_ParseSegments_AnyTag ==
  RoundTripped({"parseMessage"}) => ParsedAs(TagSegments(FALSE))

\* C19: parseMessage returns for every wire string; empty segments, segments
\* without "=" and segments that begin with "=" add no tag; every other
\* segment is split on its first "=" and stored under its tag, the last
\* segment of a tag winning, but for the tag __proto__, which stores nothing;
\* without a tag 35 the type is "D".
C19_ParseSegments ==
  RoundTripped({"parseMessage"})
    => ParsedAs({ i \in TagSegments(TRUE) : TagOf(call.segments[i]) # PROTO })

\* "=5", then "3=5=3", then "35": one tag, 3, with the value "5=3".
C19_Witness ==
  /\ RoundTripped({"parseMessage"})
  /\ call.segments = <<<<"=", "5">>, <<"3", "=", "5", "=", "3">>, <<"3", "5">>>>
  /\ locals.tags = <<Property(<<"3">>, Str(<<"5", "=", "3">>))>>
  /\ locals.msgType = <<"D">>

\* C20: for a string x without "|", fromDisplayString(toDisplayString(x)) = x.
C20_DisplayRoundTrip ==
  ( /\ RoundTripped({"toDisplayString"})
    /\ \A i \in 1..Len(call.rawFix) : call.rawFix[i] # "|" )
    => result.value = call.rawFix

\* A wire string of three fields, with two delimiters.
C20_Witness ==
  /\ RoundTripped({"toDisplayString"})
  /\ call.segments = <<<<"3", "5", "=", "5">>, <<"3", "=", "5">>, <<"3", "=">>>>
  /\ locals = <<"3", "5", "=", "5", "|", "3", "=", "5", "|", "3", "=">>
  /\ result.value = call.rawFix

\* ---------------------------------------------------------------------------
\* C21 as stated: the message of buildNewOrderSingle carries no tag 44 for a
\* Market order and carries tag 44 for every Limit, Stop and StopLimit order.
C21_PriceTag_Always ==
  Built({"buildNewOrderSingle"}) =>
    /\ call.params.orderType = "Market" => ~HasKey(result.tags, <<"4", "4">>)
    /\ call.params.orderType \in {"Limit", "Stop", "StopLimit"} =>
         HasKey(result.tags, <<"4", "4">>)

\* The segments of the wire string that start with "44=".
PriceSegments(rawFix) ==
  LET segs == Split(rawFix, SOH)
  IN  { i \in 1..Len(segs) : Len(segs[i]) >= 3 /\ SubSeq(segs[i], 1, 3) = <<"4", "4", "=">> }

\* C21: the message of buildNewOrderSingle carries no tag 44, in its tag
\* mapping or on the wire, for a Market order; for a Limit, Stop or StopLimit
\* order it carries tag 44 exactly when a price was supplied, and the tag's
\* value is then that price.
C21_PriceTag ==
  Built({"buildNewOrderSingle"}) =>
    /\ call.params.orderType = "Market" =>
         /\ ~HasKey(result.tags, <<"4", "4">>)
         /\ PriceSegments(result.rawFix) = {}
    /\ call.params.orderType \in {"Limit", "Stop", "StopLimit"} =>
         /\ HasKey(result.tags, <<"4", "4">>) <=> call.params.price # Undefined
         /\ call.params.price # Undefined =>
              /\ Get(result.tags, <<"4", "4">>) = call.params.price[1]
              /\ PriceSegments(result.rawFix) # {}

C21_Witness ==
  /\ Built({"buildNewOrderSingle"})
  /\ call.params.orderType = "Stop"
  /\ call.params.price = <<Num(5)>>
  /\ Get(result.tags, <<"4", "4">>) = Num(5)

\* ---------------------------------------------------------------------------
\* Shares: calculate run on rows of non-negative weights and percentages,
\* among them a row of 100 percent, at one price.
ShareRows ==
  { r \in WeightRows : OrZero(r.qty) >= 0 /\ OrZero(r.percent) >= 0 }
  \cup { AllocationAccount(<<"C">>, <<MaxWeight + 1>>, <<100>>, Undefined) }

ShareCalls(n) ==
  [op : {"calculate"}, allocType : {"ProRata", "Percent"},
   order : [avgPx : {<<1>>}, price : {Undefined}, cumQty : 0..MaxQty],
   inputAccounts : ListsUpTo(ShareRows, n)]

ShareInit ==
  /\ call \in ShareCalls(MaxAccounts)
  /\ pc = "ready"
  /\ locals = NoLocals
  /\ accounts = call.inputAccounts
  /\ result = NoResult

ShareSpec == ShareInit /\ [][Calculate]_allocVars

\* Every output quantity lies in 0..cumQty.
WithinCumQty ==
  \A i \in 1..Len(result.accounts) :
    /\ result.accounts[i].qty[1] >= 0
    /\ result.accounts[i].qty[1] <= call.order.cumQty

\* C30 as stated: for ProRata and Percent, when the weights or percentages
\* are non-negative and cumQty >= 0, every output quantity, the last
\* account's remainder included, is non-negative and at most cumQty.
C30_WithinCumQty_AnyPercents ==
  Calculated({"ProRata", "Percent"}) => WithinCumQty

\* C30: for ProRata with non-negative weights, and for Percent with
\* non-negative percentages that sum to at most 100, and cumQty >= 0, every
\* output quantity, the last account's remainder included, is non-negative
\* and at most cumQty.
C30_WithinCumQty ==
  /\ Calculated({"ProRata"}) => WithinCumQty
  /\ Calculated({"Percent"}) /\ SeqSum(InputPercents) <= 100 => WithinCumQty

C30_Witness ==
  /\ Calculated({"Percent"})
  /\ InputPercents = <<50, 50>>
  /\ call.order.cumQty = 3
  /\ OutputQtys = <<1, 2>>

\* ---------------------------------------------------------------------------
\* WSClient (client/src/lib/wsClient.ts).  In this specification `locals`
\* holds the client's fields, `accounts` the readyState of every WebSocket the
\* client has constructed, `result` the state of every timer it has set,
\* `call` the method or callback that ran last and `pc` what the page did
\* last.  A socket or a timer is named by its index; 0 is null.
MaxSockets == 6

maxReconnectAttempts == 5

client == locals

sockets == accounts

timers == result

WSCall(op) == [op |-> op]

\* new WSClient()
WSInit ==
  /\ call = WSCall("constructor")
  /\ pc = "ready"
  /\ client = [ws |-> 0, reconnectTimeout |-> 0, reconnectAttempts |-> 0]
  /\ sockets = <<>>
  /\ timers = <<>>

\* connect(): this.ws = new WebSocket(wsUrl), the callbacks set on it.
connect(c, socks) ==
  [client |-> [c EXCEPT !.ws = Len(socks) + 1],
   sockets |-> Append(socks, "CONNECTING")]

\* if (this.reconnectAttempts < this.maxReconnectAttempts)
CanReconnect(c) == c.reconnectAttempts < maxReconnectAttempts

\* attemptReconnect(): counts the attempt and sets the timer that will
\* call connect.
attemptReconnect(c, tms) ==
  IF CanReconnect(c)
  THEN [client |-> [c EXCEPT !.reconnectAttempts = @ + 1,
                             !.reconnectTimeout = Len(tms) + 1],
        timers |-> Append(tms, "pending")]
  ELSE [client |-> c, timers |-> tms]

\* clearTimeout(id): a timer that has not fired will not fire.
clearTimeout(tms, id) ==
  IF tms[id] = "pending" THEN [tms EXCEPT ![id] = "cleared"] ELSE tms

\* WebSocket.close(): a socket that is connecting or open starts closing;
\* its close event comes later.
close(socks, id) ==
  IF socks[id] \in {"CONNECTING", "OPEN"} THEN [socks EXCEPT ![id] = "CLOSING"]
  ELSE socks

\* disconnect()
disconnect(c, socks, tms) ==
  [timers |-> IF c.reconnectTimeout # 0 THEN clearTimeout(tms, c.reconnectTimeout)
              ELSE tms,
   sockets |-> IF c.ws # 0 THEN close(socks, c.ws) ELSE socks,
   client |-> IF c.ws # 0 THEN [c EXCEPT !.ws = 0] ELSE c]

\* A page mounts and calls wsClient.connect(...).
Connect ==
  /\ pc \in {"ready", "disconnected"}
  /\ Len(sockets) < MaxSockets
  /\ LET r == connect(client, sockets)
     IN  client' = r.client /\ sockets' = r.sockets
  /\ call' = WSCall("connect")
  /\ pc' = "connected"
  /\ UNCHANGED timers

\* ws.onopen of socket s.
OnOpen ==
  \E s \in 1..Len(sockets) :
    /\ sockets[s] = "CONNECTING"
    /\ sockets' = [sockets EXCEPT ![s] = "OPEN"]
    /\ client' = [client EXCEPT !.reconnectAttempts = 0]
    /\ call' = WSCall("onopen")
    /\ UNCHANGED <<pc, timers>>

\* ws.onclose of socket s: the connection failed, the peer closed it, or
\* close() has finished.
OnClose ==
  \E s \in 1..Len(sockets) :
    /\ sockets[s] # "CLOSED"
    /\ sockets' = [sockets EXCEPT ![s] = "CLOSED"]
    /\ LET r == attemptReconnect(client, timers)
       IN  client' = r.client /\ timers' = r.timers
    /\ call' = WSCall("onclose")
    /\ UNCHANGED pc

\* The callback of the setTimeout of attemptReconnect.
ReconnectTimeout ==
  \E t \in 1..Len(timers) :
    /\ timers[t] = "pending"
    /\ Len(sockets) < MaxSockets
    /\ timers' = [timers EXCEPT ![t] = "fired"]
    /\ LET r == connect(client, sockets)
       IN  client' = r.client /\ sockets' = r.sockets
    /\ call' = WSCall("timeout")
    /\ UNCHANGED pc

\* The page unmounts and calls wsClient.disconnect().
Disconnect ==
  /\ pc = "connected"
  /\ LET r == disconnect(client, sockets, timers)
     IN  client' = r.client /\ sockets' = r.sockets /\ timers' = r.timers
  /\ call' = WSCall("disconnect")
  /\ pc' = "disconnected"

WSNext == Connect \/ OnOpen \/ OnClose \/ ReconnectTimeout \/ Disconnect

WSSpec == WSInit /\ [][WSNext]_allocVars

\* C29: from disconnect() until the page calls connect() again the client
\* constructs no WebSocket and sets no reconnect timer, whatever close and
\* timeout callbacks run; reconnectAttempts stays within 0..5 and goes back
\* to 0 only in a socket's open callback.
C29_StaysDisconnected ==
  [][/\ (pc = "disconnected" /\ pc' = "disconnected") =>
          /\ Len(sockets') = Len(sockets)
          /\ Len(timers') = Len(timers)
     /\ client'.reconnectAttempts \in 0..maxReconnectAttempts
     /\ (client.reconnectAttempts # 0 /\ client'.reconnectAttempts = 0) =>
          call'.op = "onopen"]_allocVars

\* ---------------------------------------------------------------------------
\* The relay (server/routes.ts over DbStorage, server/storage.ts).  In this
\* specification `result` holds the database, `accounts` what was sent to the
\* clients, `call` the WebSocket messages received so far, and, for every
\* handler invocation in flight, `pc` the await it is suspended at and
\* `locals` its local variables.  Handlers are async functions: between two
\* awaits a handler runs alone, at an await any other handler may run.
MaxEvents == 3

MaxHandlers == 2

MaxOrders == 1

MaxFill == 2

OrderQty == 2

FillPx == 5

db == result

sent == accounts

Handlers == 1..MaxHandlers

Idle == [event |-> [type |-> "none"]]

RelayInit ==
  /\ call = <<>>
  /\ pc = [h \in Handlers |-> "idle"]
  /\ locals = [h \in Handlers |-> Idle]
  /\ db = [orders |-> <<>>, executions |-> <<>>, allocations |-> <<>>, messages |-> <<>>]
  /\ sent = <<>>

\* ------------------------------------------------------------- DbStorage
\* createOrder: status "New", cumQty 0, leavesQty the quantity.
createOrder(d, insertOrder) ==
  [d EXCEPT !.orders = Append(@,
     [id |-> Len(d.orders) + 1, clOrdId |-> insertOrder.clOrdId,
      quantity |-> insertOrder.quantity, price |-> insertOrder.price,
      status |-> "New", avgPx |-> Undefined, cumQty |-> 0,
      leavesQty |-> insertOrder.quantity])]

\* getOrder: a copy of the row, or undefined.
getOrder(d, id) == IF id \in 1..Len(d.orders) THEN <<d.orders[id]>> ELSE Undefined

\* The UPDATE of updateOrderStatus; `order` is the row it read before.  A
\* column set to undefined is left as it is.
SetOrderStatus(d, id, order, status, cumQty, avgPx) ==
  [d EXCEPT !.orders[id] =
     [@ EXCEPT !.status = status, !.cumQty = cumQty,
               !.leavesQty = order.quantity - cumQty,
               !.avgPx = IF avgPx = Undefined THEN @ ELSE avgPx]]

\* The UPDATE of updateOrderDetails; `order` is the row it read before.
SetOrderDetails(d, id, order, quantity, price) ==
  [d EXCEPT !.orders[id] =
     [@ EXCEPT !.quantity = quantity, !.leavesQty = quantity - order.cumQty,
               !.price = IF price = Undefined THEN @ ELSE price]]

createExecution(d, execution) == [d EXCEPT !.executions = Append(@, execution)]

\* createAllocation: status "Pending".
createAllocation(d, insertAllocation) ==
  [d EXCEPT !.allocations = Append(@, insertAllocation @@ [status |-> "Pending"])]

getAllocation(d, id) ==
  IF id \in 1..Len(d.allocations) THEN <<d.allocations[id]>> ELSE Undefined

\* updateAllocationStatus: UPDATE ... SET status WHERE id, whatever the
\* status was.
updateAllocationStatus(d, id, status) ==
  IF id \in 1..Len(d.allocations)
  THEN [d EXCEPT !.allocations[id].status = status] ELSE d

\* DbStorage.createMessage
storageCreateMessage(d, message) == [d EXCEPT !.messages = Append(@, message)]

\* ---------------------------------------------------------------- routes
\* The local variables of a handler invocation: the message it handles, the
\* order it read on entry, what it will write, and the awaits still ahead.
Frame(event, order, steps) ==
  [event |-> event, order |-> order, steps |-> steps, row |-> Undefined,
   execution |-> Undefined, update |-> Undefined, allocation |-> Undefined,
   message |-> Undefined, broadcasts |-> <<>>]

\* The handler that takes the next message: the first one not in flight.
FreeHandler == CHOOSE h \in Handlers : pc[h] = "idle" /\ \A g \in 1..(h - 1) : pc[g] # "idle"

CanReceive == Len(call) < MaxEvents /\ \E h \in Handlers : pc[h] = "idle"

\* A handler suspends at its first pending await, or returns.
Suspend(h, frame) ==
  IF frame.steps = <<>>
  THEN pc' = [pc EXCEPT ![h] = "idle"] /\ locals' = [locals EXCEPT ![h] = Idle]
  ELSE /\ pc' = [pc EXCEPT ![h] = Head(frame.steps)]
       /\ locals' = [locals EXCEPT ![h] = [frame EXCEPT !.steps = Tail(@)]]

\* The row of an order that exists.
OrderRow(orderId) == db.orders[orderId]

\* const order = await storage.getOrder(orderId); if (!order) { ws.send
\* error; return }: otherwise the handler goes on with `frame`, which the
\* caller builds from OrderRow(event.orderId).
WithOrder(event, frame) ==
  /\ CanReceive
  /\ call' = Append(call, event)
  /\ IF getOrder(db, event.orderId) = Undefined
     THEN /\ sent' = Append(sent, "error")
          /\ UNCHANGED <<pc, locals, db>>
     ELSE /\ Suspend(FreeHandler, frame)
          /\ UNCHANGED <<db, sent>>

\* `ORD-${Date.now()}-...` of the n-th order.
ClOrdIdOf(n) == Str(<<"O">> \o NatToString(n))

\* fixTags of order.new
NewOrderTags(clOrdId, data) ==
  LET t0 == ObjectOf(<<Property(<<"1", "1">>, clOrdId),
                       Property(<<"5", "5">>, Str(data.symbol)),
                       Property(<<"5", "4">>,
                                Str(IF data.side = "Buy" THEN <<"1">> ELSE <<"2">>)),
                       Property(<<"3", "8">>, Str(IntToString(data.quantity))),
                       Property(<<"4", "0">>,
                                Str(IF data.orderType = "Market" THEN <<"1">>
                                    ELSE IF data.orderType = "Limit" THEN <<"2">>
                                    ELSE <<"3">>)),
                       Property(<<"6", "0">>, Str(<<"T", "1">>))>>)
  IN  IF Truthy(data.price)
      THEN Put(t0, <<"4", "4">>, Str(IntToString(data.price[1]))) ELSE t0

\* order.new: the order is created first.
OrderNew ==
  \E quantity \in {-1, OrderQty} :
    LET event == [type |-> "order.new", symbol |-> <<"I", "B", "M">>, side |-> "Buy",
                  quantity |-> quantity, orderType |-> "Limit", price |-> <<FillPx>>]
        clOrdId == ClOrdIdOf(Len(db.orders) + 1)
        created == createOrder(db, [clOrdId |-> clOrdId, quantity |-> quantity,
                                    price |-> event.price])
    IN  /\ CanReceive
        /\ Len(db.orders) < MaxOrders
        /\ call' = Append(call, event)
        /\ db' = created
        /\ Suspend(FreeHandler,
                   Frame(event, created.orders[Len(created.orders)], <<"order.new:validate">>))
        /\ UNCHANGED sent

\* order.new after createOrder: the tags are built and validated, and only
\* a valid message is stored.
OrderNewValidate ==
  \E h \in Handlers :
    /\ pc[h] = "order.new:validate"
    /\ LET fixTags == NewOrderTags(locals[h].order.clOrdId, locals[h].event)
           validation == validateFIXMessage("D", fixTags)
       IN  IF validation.valid
           THEN /\ db' = storageCreateMessage(db, [messageType |-> "D", parsed |-> fixTags])
                /\ Suspend(h, [locals[h] EXCEPT !.steps = <<"order.new:broadcast">>])
           ELSE /\ Suspend(h, locals[h])
                /\ UNCHANGED db
    /\ UNCHANGED <<call, sent>>

\* order.new: the callback of setTimeout(..., senderLatency).
OrderNewBroadcast ==
  \E h \in Handlers :
    /\ pc[h] = "order.new:broadcast"
    /\ sent' = sent \o <<"order.created", "message.new">>
    /\ Suspend(h, locals[h])
    /\ UNCHANGED <<call, db>>

\* The steps of a handler that writes an execution, the order's status and a
\* message; updateOrderStatus reads the order and then writes it.
ReportSteps == <<"createExecution", "updateOrderStatus", "updateOrderStatus:set", "createMessage">>

\* newAvgPx of execution.fill.  Every fill of the model is at FillPx, so the
\* quotient is a whole number.
NewAvgPx(order, fillQty, fillPx) ==
  IF order.cumQty = 0 THEN fillPx
  ELSE Floor(order.cumQty * OrZero(order.avgPx) + fillQty * fillPx, order.cumQty + fillQty)

\* execution.fill up to createExecution.
ExecutionFill ==
  \E orderId \in 1..MaxOrders, fillQty \in 0..MaxFill :
    LET event == [type |-> "execution.fill", orderId |-> orderId,
                  fillQty |-> fillQty, fillPx |-> FillPx]
        order == OrderRow(orderId)
        frame ==
          LET newCumQty == order.cumQty + fillQty
              newAvgPx == NewAvgPx(order, fillQty, FillPx)
              isFilled == newCumQty >= order.quantity
              orderStatus == IF isFilled THEN "Filled" ELSE "PartiallyFilled"
          IN  [Frame(event, order, ReportSteps) EXCEPT
                 !.execution = [execType |-> IF isFilled THEN "Fill" ELSE "PartialFill",
                                orderStatus |-> orderStatus, lastQty |-> fillQty,
                                cumQty |-> newCumQty,
                                leavesQty |-> order.quantity - newCumQty],
                 !.update = [status |-> orderStatus, cumQty |-> newCumQty,
                             avgPx |-> <<newAvgPx>>],
                 !.message = [messageType |-> "8", clOrdId |-> order.clOrdId],
                 !.broadcasts = <<"execution.created", "order.updated", "message.new">>]
    IN  WithOrder(event, frame)

\* execution.reject and order.cancel.accept: an execution with leavesQty 0
\* and the status, with the cumQty and avgPx read on entry.
Closing(event, status) ==
  LET order == OrderRow(event.orderId)
      frame ==
        [Frame(event, order, ReportSteps) EXCEPT
           !.execution = [execType |-> status, orderStatus |-> status, lastQty |-> 0,
                          cumQty |-> order.cumQty, leavesQty |-> 0],
           !.update = [status |-> status, cumQty |-> order.cumQty, avgPx |-> order.avgPx],
           !.message = [messageType |-> "8", clOrdId |-> order.clOrdId],
           !.broadcasts = <<"execution.created", "order.updated", "message.new">>]
  IN  WithOrder(event, frame)

ExecutionReject ==
  \E orderId \in 1..MaxOrders :
    Closing([type |-> "execution.reject", orderId |-> orderId], "Rejected")

OrderCancelAccept ==
  \E orderId \in 1..MaxOrders :
    Closing([type |-> "order.cancel.accept", orderId |-> orderId], "Canceled")

\* order.cancel and order.replace: the pending status, then the request
\* message.
Requesting(event, status, messageType, broadcast) ==
  LET order == OrderRow(event.orderId)
      frame ==
        [Frame(event, order, <<"updateOrderStatus", "updateOrderStatus:set", "createMessage">>)
           EXCEPT
           !.update = [status |-> status, cumQty |-> order.cumQty, avgPx |-> order.avgPx],
           !.message = [messageType |-> messageType, clOrdId |-> order.clOrdId],
           !.broadcasts = <<broadcast, "message.new">>]
  IN  WithOrder(event, frame)

OrderCancel ==
  \E orderId \in 1..MaxOrders :
    Requesting([type |-> "order.cancel", orderId |-> orderId],
               "PendingCancel", "F", "order.cancel.pending")

\* The quantities a replace asks for: one below and one above the order's.
ReplaceQtys == {OrderQty - 1, OrderQty + 1}

OrderReplace ==
  \E orderId \in 1..MaxOrders, quantity \in ReplaceQtys :
    Requesting([type |-> "order.replace", orderId |-> orderId,
                quantity |-> quantity, price |-> Undefined],
               "PendingReplace", "G", "order.replace.pending")

\* order.replace.accept: updateOrderDetails, then updateOrderStatus with the
\* cumQty and avgPx read on entry, then the Replaced execution.
OrderReplaceAccept ==
  \E orderId \in 1..MaxOrders, quantity \in ReplaceQtys :
    LET event == [type |-> "order.replace.accept", orderId |-> orderId,
                  quantity |-> quantity, price |-> Undefined]
        order == OrderRow(orderId)
        frame ==
          [Frame(event, order,
                 <<"updateOrderDetails", "updateOrderDetails:set",
                   "updateOrderStatus", "updateOrderStatus:set",
                   "createExecution", "createMessage">>) EXCEPT
             !.update = [status |-> "New", cumQty |-> order.cumQty, avgPx |-> order.avgPx],
             !.execution = [execType |-> "Replaced", orderStatus |-> "New", lastQty |-> 0,
                            cumQty |-> order.cumQty,
                            leavesQty |-> quantity - order.cumQty],
             !.message = [messageType |-> "8", clOrdId |-> order.clOrdId],
             !.broadcasts = <<"execution.created", "order.updated", "message.new">>]
    IN  WithOrder(event, frame)

MaxAllocations == 1

\* allocation.instruction: the engine's result is stored as a Pending
\* allocation.
AllocationInstruction ==
  \E orderId \in 1..MaxOrders :
    LET event == [type |-> "allocation.instruction", orderId |-> orderId,
                  allocType |-> "ProRata",
                  accounts |-> <<AllocationAccount(<<"A">>, <<1>>, <<100>>, Undefined)>>]
        order == OrderRow(orderId)
        frame ==
          LET calculation == calculate(event.allocType, order, event.accounts)
          IN  [Frame(event, order, <<"createAllocation", "createMessage">>) EXCEPT
                 !.allocation = [orderId |-> order.id, allocType |-> event.allocType,
                                 accounts |-> calculation.accounts,
                                 totalQty |-> calculation.totalQty],
                 !.message = [messageType |-> "J"],
                 !.broadcasts = <<"allocation.created", "message.new">>]
    IN  /\ Len(db.allocations) < MaxAllocations
        /\ WithOrder(event, frame)

\* allocation.response and allocation.confirm: the status is written first,
\* whatever the allocation's status is.
Deciding(event, status, messageType) ==
  /\ CanReceive
  /\ call' = Append(call, event)
  /\ db' = updateAllocationStatus(db, event.allocId, status)
  /\ Suspend(FreeHandler,
             [Frame(event, Undefined, <<"getAllocation">>) EXCEPT
                !.message = [messageType |-> messageType],
                !.broadcasts = <<"allocation.updated", "message.new">>])
  /\ UNCHANGED sent

AllocationResponse ==
  \E allocId \in 1..MaxAllocations, accept \in BOOLEAN :
    Deciding([type |-> "allocation.response", allocId |-> allocId, accept |-> accept],
             IF accept THEN "Accepted" ELSE "Rejected", "AS")

AllocationConfirm ==
  \E allocId \in 1..MaxAllocations :
    Deciding([type |-> "allocation.confirm", allocId |-> allocId], "Confirmed", "AK")

\* ------------------------------------------------- the awaits of a handler
\* await storage.createExecution({...})
CreateExecution ==
  \E h \in Handlers :
    /\ pc[h] = "createExecution"
    /\ db' = createExecution(db, locals[h].execution)
    /\ Suspend(h, locals[h])
    /\ UNCHANGED <<call, sent>>

\* await storage.createAllocation({...})
CreateAllocation ==
  \E h \in Handlers :
    /\ pc[h] = "createAllocation"
    /\ db' = createAllocation(db, locals[h].allocation)
    /\ Suspend(h, locals[h])
    /\ UNCHANGED <<call, sent>>

\* The read of a storage update: const order = await this.getOrder(id);
\* if (!order) return.
ReadOrder(h) ==
  LET row == getOrder(db, locals[h].event.orderId)
  IN  /\ IF row = Undefined
         THEN Suspend(h, [locals[h] EXCEPT !.steps = Tail(@)])
         ELSE Suspend(h, [locals[h] EXCEPT !.row = row])
      /\ UNCHANGED <<call, db, sent>>

\* updateOrderStatus, its read.
UpdateOrderStatusRead ==
  \E h \in Handlers : pc[h] = "updateOrderStatus" /\ ReadOrder(h)

\* updateOrderStatus, its UPDATE.
UpdateOrderStatusSet ==
  \E h \in Handlers :
    /\ pc[h] = "updateOrderStatus:set"
    /\ db' = SetOrderStatus(db, locals[h].event.orderId, locals[h].row[1],
                            locals[h].update.status, locals[h].update.cumQty,
                            locals[h].update.avgPx)
    /\ Suspend(h, locals[h])
    /\ UNCHANGED <<call, sent>>

\* updateOrderDetails, its read.
UpdateOrderDetailsRead ==
  \E h \in Handlers : pc[h] = "updateOrderDetails" /\ ReadOrder(h)

\* updateOrderDetails, its UPDATE.
UpdateOrderDetailsSet ==
  \E h \in Handlers :
    /\ pc[h] = "updateOrderDetails:set"
    /\ db' = SetOrderDetails(db, locals[h].event.orderId, locals[h].row[1],
                             locals[h].event.quantity, locals[h].event.price)
    /\ Suspend(h, locals[h])
    /\ UNCHANGED <<call, sent>>

\* await storage.createMessage({...}) and the broadcasts after it.
CreateMessage ==
  \E h \in Handlers :
    /\ pc[h] = "createMessage"
    /\ db' = storageCreateMessage(db, locals[h].message)
    /\ sent' = sent \o locals[h].broadcasts
    /\ Suspend(h, locals[h])
    /\ UNCHANGED call

\* const allocation = await storage.getAllocation(allocId); if (allocation)
\* the report is stored and broadcast.
AllocationReport ==
  \E h \in Handlers :
    /\ pc[h] = "getAllocation"
    /\ IF getAllocation(db, locals[h].event.allocId) # Undefined
       THEN /\ db' = storageCreateMessage(db, locals[h].message)
            /\ sent' = sent \o locals[h].broadcasts
       ELSE UNCHANGED <<db, sent>>
    /\ Suspend(h, locals[h])
    /\ UNCHANGED call

RelayNext ==
  \/ OrderNew \/ OrderNewValidate \/ OrderNewBroadcast
  \/ ExecutionFill \/ ExecutionReject
  \/ OrderCancel \/ OrderCancelAccept
  \/ OrderReplace \/ OrderReplaceAccept
  \/ AllocationInstruction \/ AllocationResponse \/ AllocationConfirm
  \/ CreateExecution \/ CreateAllocation
  \/ UpdateOrderStatusRead \/ UpdateOrderStatusSet
  \/ UpdateOrderDetailsRead \/ UpdateOrderDetailsSet
  \/ CreateMessage \/ AllocationReport

RelaySpec == RelayInit /\ [][RelayNext]_allocVars

\* ------------------------------------------------------- the relay's claims
\* No handler is in flight.
Quiet == \A h \in Handlers : pc[h] = "idle"

\* The messages received after the first are all of the given types, and the
\* first created an order of a positive quantity.
OnlyEvents(types) ==
  /\ Len(call) >= 1
  /\ call[1].type = "order.new" /\ call[1].quantity > 0
  /\ \A i \in 2..Len(call) : call[i].type \in types

\* The order.new message that created order id asked for a positive quantity.
CreatedValid(id) ==
  SelectSeq(call, LAMBDA e : e.type = "order.new")[id].quantity > 0

\* C22: once the handlers of any sequence of execution.fill,
\* order.cancel.accept and order.replace.accept messages on an order have
\* run, interleaved or not, the stored order has
\* cumQty + leavesQty = quantity.
C22_QtyBalance ==
  (Quiet /\ OnlyEvents({"execution.fill", "order.cancel.accept", "order.replace.accept"})) =>
    \A id \in 1..Len(db.orders) :
      db.orders[id].cumQty + db.orders[id].leavesQty = db.orders[id].quantity

\* C23: once the handlers of two execution.fill messages on the same order
\* have both run, the order's cumQty is the sum of the two fill quantities
\* and the cumQty of the last execution report equals it.
C23_FillsAdd ==
  (/\ Quiet
   /\ OnlyEvents({"execution.fill"})
   /\ Len(call) = 3) =>
    /\ db.orders[1].cumQty = call[2].fillQty + call[3].fillQty
    /\ db.executions[Len(db.executions)].cumQty = call[2].fillQty + call[3].fillQty

\* C24: whatever order.new (of a positive quantity), execution.fill, execution.reject, order.cancel,
\* order.cancel.accept, order.replace and order.replace.accept messages have
\* been handled, a stored order whose cumQty is 0 has no avgPx.
C24_NoAvgPxUnfilled ==
  \A id \in 1..Len(db.orders) :
    (CreatedValid(id) /\ db.orders[id].cumQty = 0) => db.orders[id].avgPx = Undefined

\* C25: once the handlers of any sequence of execution.fill and
\* order.replace.accept messages on an order have run, the stored order has
\* 0 <= cumQty <= quantity and leavesQty >= 0.
C25_QtyBounds ==
  (Quiet /\ OnlyEvents({"execution.fill", "order.replace.accept"})) =>
    \A id \in 1..Len(db.orders) :
      /\ 0 <= db.orders[id].cumQty
      /\ db.orders[id].cumQty <= db.orders[id].quantity
      /\ db.orders[id].leavesQty >= 0

\* C26: once the status of a stored order (created with a positive quantity)
\* is Filled, Canceled or Rejected, no step of the relay changes its status,
\* cumQty or quantity.
C26_TerminalStays ==
  [][\A id \in 1..Len(db.orders) :
       (CreatedValid(id)
        /\ db.orders[id].status \in {"Filled", "Canceled", "Rejected"}) =>
         /\ db'.orders[id].status = db.orders[id].status
         /\ db'.orders[id].cumQty = db.orders[id].cumQty
         /\ db'.orders[id].quantity = db.orders[id].quantity]_allocVars

\* C27: an allocation's status becomes Confirmed only from Accepted, and a
\* Confirmed allocation stays Confirmed.
C27_ConfirmAfterAccept ==
  [][\A id \in 1..Len(db.allocations) :
       /\ (db.allocations[id].status # "Confirmed"
           /\ db'.allocations[id].status = "Confirmed") =>
            db.allocations[id].status = "Accepted"
       /\ db.allocations[id].status = "Confirmed" =>
            db'.allocations[id].status = "Confirmed"]_allocVars

\* The order.new messages received whose tags validateFIXMessage rejects.
InvalidNewOrders ==
  { i \in 1..Len(call) :
      /\ call[i].type = "order.new"
      /\ ~validateFIXMessage("D", NewOrderTags(ClOrdIdOf(1), call[i])).valid }

\* C28: an order.new whose tags fail validateFIXMessage stores no order and
\* no message and broadcasts nothing; and once the handlers have run, every
\* stored order has a stored D message carrying its clOrdId.
C28_InvalidOrderLeavesNothing ==
  /\ (Len(call) = 1 /\ InvalidNewOrders = {1}) =>
       db.orders = <<>> /\ db.messages = <<>> /\ sent = <<>>
  /\ Quiet =>
       \A id \in 1..Len(db.orders) :
         \E i \in 1..Len(db.messages) :
           /\ db.messages[i].messageType = "D"
           /\ Get(db.messages[i].parsed, <<"1", "1">>) = db.orders[id].clOrdId

====
